---------------------------- MODULE Spec2Model ----------------------------
(***************************************************************************)
(* Conversation-history subsystem of the chat bot: the per-user history   *)
(* kept in Redis (src/src/message_history.py) and the /chat slash-command *)
(* handler that uses it (src/src/bot.py).                                  *)
(*                                                                         *)
(* Requests are handled by concurrent asyncio tasks.  A task only yields  *)
(* at an await, so every action below is the code between two awaits on   *)
(* the Redis backend, the username lookup or the completion API.           *)
(*                                                                         *)
(* bot.py calls ConversationHistoryRepo.get, ConversationHistory.lock,     *)
(* .trim and .save.  message_history.py does not define them (it defines   *)
(* MessageHistoryRepo with append_message); they are modelled from the     *)
(* written specification and marked so where they are defined.             *)
(***************************************************************************)
EXTENDS Integers, Sequences, FiniteSets, TLC

(***************************************************************************)
(* Bounds of the model.                                                    *)
(***************************************************************************)
\* Number of concurrent request tasks.
NumTasks == 2
\* Total number of requests ever started.
MaxRequests == 2
\* MAX_PROMPT_LENGTH of openai_client.py (GPT3_MAX_TOKENS / 2 = 2048 there),
\* scaled down so that prompts longer than it and histories over it are small:
\* room for three short rendered lines, not for four.
MAX_PROMPT_LENGTH == 20
\* The smaller of the two max_conversation_characters values passed to
\* append_message: room for one short rendered line, not for two.
SmallBudget == 7

\* self.user.id of the bot (bot.py line 136).
BotUserId == 2

Tasks == 1..NumTasks
\* interaction.user.id / interacting_user_id values.
Owners == {7, 42}
UserIds == Owners \cup {BotUserId}

\* A body longer than MAX_PROMPT_LENGTH.
LongBody == [i \in 1..(MAX_PROMPT_LENGTH + 1) |-> "a"]
\* Message bodies and prompts; characters that JSON must escape are included.
Bodies == { <<"\\", "\"">>, LongBody }
\* Non-empty completion texts.
Completions == { <<"o", "k">> }
\* max_conversation_characters arguments of append_message.
Budgets == { SmallBudget, MAX_PROMPT_LENGTH }

(***************************************************************************)
(* HistoryMessage and ConversationHistory (pydantic models).               *)
(***************************************************************************)
HistoryMessage(author_id, body) == [author_id |-> author_id, body |-> body]

ConversationHistory(interacting_user_id, messages) ==
    [interacting_user_id |-> interacting_user_id, messages |-> messages]

\* Placeholder held in a task's history slot when there is no history object.
NoHistory == ConversationHistory(0, <<>>)

(***************************************************************************)
(* Username mapper and transcript formatting.                              *)
(***************************************************************************)
\* DiscordUsernamesMapper.get_username when the user is found: display names.
get_username(user_id) ==
    CASE user_id = 42 -> <<"A", "n", "n">>
      [] user_id = 7 -> <<"A", "l">>
      [] OTHER -> <<"B", "o", "t">>

\* f"{username}: {body}"
as_transcript_str(msg) == get_username(msg.author_id) \o <<":", " ">> \o msg.body

as_transcript_lines(messages) ==
    [i \in 1..Len(messages) |-> as_transcript_str(messages[i])]

RECURSIVE SumLen(_)
SumLen(lines) ==
    IF lines = <<>> THEN 0 ELSE Len(Head(lines)) + SumLen(Tail(lines))

all_messages_transcript_len(messages) == SumLen(as_transcript_lines(messages))

(***************************************************************************)
(* JSON text of a history, as json.dumps(history.dict()) writes it and     *)
(* json.loads and the ConversationHistory constructor read it.  A text is a *)
(* sequence of tokens: punctuation, the quoted field names, and one token  *)
(* per decimal digit and per character of a string body.                   *)
(***************************************************************************)
Digits == <<"0", "1", "2", "3", "4", "5", "6", "7", "8", "9">>

IsDigit(c) == \E d \in 1..10 : Digits[d] = c

DigitVal(c) == (CHOOSE d \in 1..10 : Digits[d] = c) - 1

RECURSIVE IntToDecimal(_)
IntToDecimal(n) ==
    IF n < 10 THEN <<Digits[n + 1]>>
    ELSE IntToDecimal(n \div 10) \o <<Digits[(n % 10) + 1]>>

\* The characters of a string body between its quotes, without escaping.
EscapeNone(body) == body

\* The characters of a string body between its quotes: quote and backslash
\* are written with a backslash before them.
RECURSIVE Escape(_)
Escape(body) ==
    IF body = <<>> THEN <<>>
    ELSE (IF Head(body) \in {"\"", "\\"} THEN <<"\\", Head(body)>>
          ELSE <<Head(body)>>) \o Escape(Tail(body))

DumpsMessage(msg) ==
    <<"{", "\"author_id\"", ":">> \o IntToDecimal(msg.author_id)
      \o <<",", "\"body\"", ":", "\"">> \o Escape(msg.body) \o <<"\"", "}">>

RECURSIVE DumpsMessages(_)
DumpsMessages(messages) ==
    IF messages = <<>> THEN <<>>
    ELSE IF Len(messages) = 1 THEN DumpsMessage(messages[1])
    ELSE DumpsMessage(messages[1]) \o <<",">> \o DumpsMessages(Tail(messages))

\* json.dumps(history.dict())
json_dumps(history) ==
    <<"{", "\"interacting_user_id\"", ":">>
      \o IntToDecimal(history.interacting_user_id)
      \o <<",", "\"messages\"", ":", "[">>
      \o DumpsMessages(history.messages) \o <<"]", "}">>

\* Token i of a text, or "" past its end.
At(text, i) == IF i \in 1..Len(text) THEN text[i] ELSE ""

Expect(text, i, toks) ==
    \A k \in 1..Len(toks) : At(text, i + k - 1) = toks[k]

ParseFail == [ok |-> FALSE, val |-> 0, next |-> 0]

\* Reads the digits starting at token i.
RECURSIVE ParseDigits(_, _, _)
ParseDigits(text, i, acc) ==
    IF IsDigit(At(text, i))
    THEN ParseDigits(text, i + 1, acc * 10 + DigitVal(At(text, i)))
    ELSE [ok |-> TRUE, val |-> acc, next |-> i]

ParseInt(text, i) ==
    IF IsDigit(At(text, i)) THEN ParseDigits(text, i, 0) ELSE ParseFail

\* Reads the characters of a string whose opening quote is before token i.
RECURSIVE ParseChars(_, _, _)
ParseChars(text, i, acc) ==
    IF i > Len(text) THEN [ok |-> FALSE, val |-> <<>>, next |-> 0]
    ELSE IF text[i] = "\"" THEN [ok |-> TRUE, val |-> acc, next |-> i + 1]
    ELSE IF text[i] = "\\"
         THEN IF At(text, i + 1) \in {"\"", "\\"}
              THEN ParseChars(text, i + 2, Append(acc, text[i + 1]))
              ELSE [ok |-> FALSE, val |-> <<>>, next |-> 0]
    ELSE ParseChars(text, i + 1, Append(acc, text[i]))

ParseString(text, i) ==
    IF At(text, i) = "\"" THEN ParseChars(text, i + 1, <<>>)
    ELSE [ok |-> FALSE, val |-> <<>>, next |-> 0]

NoMessage == HistoryMessage(0, <<>>)

\* F(e), with e evaluated once and F given its value.
WithValue(e, F(_)) == CHOOSE r \in { F(x) : x \in {e} } : TRUE

ParseMessage(text, i) ==
    LET Fail == [ok |-> FALSE, val |-> NoMessage, next |-> 0]
        Body(a) ==
            LET End(b) ==
                    IF ~b.ok \/ At(text, b.next) # "}" THEN Fail
                    ELSE [ok |-> TRUE, val |-> HistoryMessage(a.val, b.val),
                          next |-> b.next + 1]
            IN  IF ~a.ok \/ ~Expect(text, a.next, <<",", "\"body\"", ":">>)
                THEN Fail
                ELSE WithValue(ParseString(text, a.next + 3), End)
    IN  IF ~Expect(text, i, <<"{", "\"author_id\"", ":">>) THEN Fail
        ELSE WithValue(ParseInt(text, i + 3), Body)

\* Reads the elements of the messages array; token i follows "[" or ",".
RECURSIVE ParseMessages(_, _, _)
ParseMessages(text, i, acc) ==
    LET Rest(m) ==
            IF ~m.ok THEN [ok |-> FALSE, val |-> <<>>, next |-> 0]
            ELSE IF At(text, m.next) = ","
                 THEN ParseMessages(text, m.next + 1, Append(acc, m.val))
            ELSE IF At(text, m.next) = "]"
                 THEN [ok |-> TRUE, val |-> Append(acc, m.val),
                       next |-> m.next + 1]
            ELSE [ok |-> FALSE, val |-> <<>>, next |-> 0]
    IN  WithValue(ParseMessage(text, i), Rest)

ParseArray(text, i) ==
    IF At(text, i) # "[" THEN [ok |-> FALSE, val |-> <<>>, next |-> 0]
    ELSE IF At(text, i + 1) = "]"
         THEN [ok |-> TRUE, val |-> <<>>, next |-> i + 2]
    ELSE ParseMessages(text, i + 1, <<>>)

\* json.loads followed by the ConversationHistory constructor: ok is FALSE when the text is
\* not the JSON of a history (json.loads or pydantic validation raises).
json_loads(text) ==
    LET Parse(txt) ==
            IF ~Expect(txt, 1, <<"{", "\"interacting_user_id\"", ":">>)
            THEN [ok |-> FALSE, val |-> NoHistory]
            ELSE LET id == ParseInt(txt, 4) IN
                 IF ~id.ok \/ ~Expect(txt, id.next, <<",", "\"messages\"", ":">>)
                 THEN [ok |-> FALSE, val |-> NoHistory]
                 ELSE LET Close(ms) ==
                              IF ~ms.ok \/ At(txt, ms.next) # "}"
                                        \/ ms.next # Len(txt)
                              THEN [ok |-> FALSE, val |-> NoHistory]
                              ELSE [ok |-> TRUE,
                                    val |-> ConversationHistory(id.val, ms.val)]
                      IN  WithValue(ParseArray(txt, id.next + 3), Close)
    IN  WithValue(text, Parse)

(***************************************************************************)
(* Redis keys.                                                             *)
(***************************************************************************)
\* A data key that leaves the owner's id out (used to mutate
\* get_conversation_history_key).
KeyWithoutOwner(interacting_user_id) ==
    <<"conversation-history:interacting-user-id:">>

\* f"conversation-history:interacting-user-id:{interacting_user_id}"
get_conversation_history_key(interacting_user_id) ==
    <<"conversation-history:interacting-user-id:">>
      \o IntToDecimal(interacting_user_id)

\* One lock key for every owner (used to mutate
\* get_conversation_history_lock_key).
LockKeyShared(interacting_user_id) ==
    <<"conversation-history:interacting-user-id:", ":lock">>

\* f"conversation-history:interacting-user-id:{interacting_user_id}:lock"
get_conversation_history_lock_key(interacting_user_id) ==
    <<"conversation-history:interacting-user-id:">>
      \o IntToDecimal(interacting_user_id) \o <<":lock">>

DataKeys == { get_conversation_history_key(o) : o \in Owners }
LockKeys == { get_conversation_history_lock_key(o) : o \in Owners }

\* A key with no value (GET returns None).
Absent == [present |-> FALSE, data |-> <<>>]

(***************************************************************************)
(* Trimming.                                                               *)
(***************************************************************************)
\* append_message, lines 183-188, with a loop that removes nothing and never
\* raises (used to mutate RemoveUntilBelowMax).
RemoveNothing(messages, max_conversation_characters) ==
    [raised |-> FALSE, messages |-> messages]

\* append_message, lines 183-188.  The loop is entered when the transcript is
\* longer than the maximum; its first iteration pops the oldest message and
\* then takes len() of the coroutine that the un-awaited as_transcript_str
\* returns, which raises TypeError.  The list keeps the pop.
RemoveUntilBelowMax(messages, max_conversation_characters) ==
    IF all_messages_transcript_len(messages) > max_conversation_characters
    THEN [raised |-> TRUE, messages |-> Tail(messages)]
    ELSE [raised |-> FALSE, messages |-> messages]

\* ConversationHistory.trim(budget), which bot.py calls and the source does
\* not define: while the transcript is over budget and more than one message
\* is left, remove the oldest.
RECURSIVE trim(_, _)
trim(messages, budget) ==
    IF all_messages_transcript_len(messages) > budget /\ Len(messages) > 1
    THEN trim(Tail(messages), budget)
    ELSE messages

\* A history whose owner id is not the requested one (used to mutate
\* NewHistory).
NewHistoryWrongOwner(interacting_user_id) == ConversationHistory(0, <<>>)

\* append_message, lines 172-177: the history created when none is stored.
NewHistory(interacting_user_id) == ConversationHistory(interacting_user_id, <<>>)

(***************************************************************************)
(* The prompt text.  A string is the sequence of its characters.           *)
(***************************************************************************)
\* sep.join(items) of Python: the items, each a string, with sep between
\* consecutive ones.
RECURSIVE str_join(_, _)
str_join(sep, items) ==
    IF items = <<>> THEN <<>>
    ELSE IF Len(items) = 1 THEN items[1]
    ELSE items[1] \o sep \o str_join(sep, Tail(items))

\* The items Python iterates over when a string is joined: its characters,
\* each a string of length one.
Characters(line) == [i \in 1..Len(line) |-> <<line[i]>>]

\* bot.py line 143, "\n".join(lines[0]): element 0 of the list of transcript
\* lines is taken (IndexError on an empty list) and join iterates over that
\* one string.
transcript_of(lines) ==
    IF lines = <<>> THEN [raised |-> TRUE, text |-> <<>>]
    ELSE [raised |-> FALSE, text |-> str_join(<<"\n">>, Characters(lines[1]))]

(***************************************************************************)
(* Filling the placeholder.                                                *)
(***************************************************************************)
\* An assignment that changes the body of the first message instead (used to
\* mutate replace_last_body).
ReplaceFirstBody(messages, ai_resp) ==
    IF messages = <<>> THEN [raised |-> TRUE, messages |-> messages]
    ELSE [raised |-> FALSE, messages |-> [messages EXCEPT ![1].body = ai_resp]]

\* bot.py line 150, history.messages[-1].body = ai_resp: indexing an empty
\* list with -1 raises (IndexError); otherwise the body field of the last
\* message object is assigned.
replace_last_body(messages, ai_resp) ==
    IF messages = <<>> THEN [raised |-> TRUE, messages |-> messages]
    ELSE [raised |-> FALSE,
          messages |-> [messages EXCEPT ![Len(messages)].body = ai_resp]]

(***************************************************************************)
(* State.                                                                  *)
(***************************************************************************)
VARIABLES
    store,        \* Redis data keys: key -> [present, data (JSON text)]
    lock,         \* Redis lock keys: key -> holding task, 0 when free
    req,          \* task -> the request it is running and its local state
    savedBudget,  \* data key -> budget of the request that last saved it
    nreq          \* number of requests started so far

vars == <<store, lock, req, savedBudget, nreq>>

\* A task that is running no request.
IdleReq ==
    [pc |-> "idle", op |-> "none", owner |-> 0, author |-> 0, body |-> <<>>,
     budget |-> 0, none |-> FALSE, history |-> NoHistory, pre |-> <<>>,
     err |-> "none", sawAbsent |-> FALSE, waited |-> FALSE, once |-> <<>>,
     redis_key |-> <<>>, lock_key |-> <<>>, transcript |-> <<>>]

\* A finished request: only its outcome is kept.
Finished(r, e) == [IdleReq EXCEPT !.pc = "done", !.err = e]

DataKey(t) == get_conversation_history_key(req[t].owner)
LockKey(t) == get_conversation_history_lock_key(req[t].owner)

Init ==
    /\ store = [k \in DataKeys |-> Absent]
    /\ lock = [k \in LockKeys |-> 0]
    /\ req = [t \in Tasks |-> IdleReq]
    /\ savedBudget = [k \in DataKeys |-> 0]
    /\ nreq = 0

(***************************************************************************)
(* The Redis lock (redis.asyncio lock, default arguments: blocking, no     *)
(* timeout) used as an async context manager.                              *)
(***************************************************************************)
\* A contended acquisition that gives up with an error (used to mutate
\* Blocked).
BlockedFailFast(r) == Finished(r, "LockError")

\* A contended acquisition: the task sleeps and tries again.
Blocked(r) == [r EXCEPT !.waited = TRUE]

\* An exit from the context manager that leaves the lock held (used to mutate
\* Release).
ReleaseNothing(l, k) == l

\* Exit from the context manager, on return or on an exception.
Release(l, k) == [l EXCEPT ![k] = 0]

(***************************************************************************)
(* Requests.                                                               *)
(***************************************************************************)
\* A call of MessageHistoryRepo.append_message(interacting_user_id, msg,
\* max_conversation_characters) begins; msg is a message of the user.
StartAppend(t) ==
    /\ req[t].pc \in {"idle", "done"}
    /\ nreq < MaxRequests
    /\ \E o \in Owners, b \in Bodies, m \in Budgets :
         req' = [req EXCEPT ![t] =
                [IdleReq EXCEPT !.pc = "am_lock", !.op = "append", !.owner = o,
                                !.author = o, !.body = b, !.budget = m]]
    /\ nreq' = nreq + 1
    /\ UNCHANGED <<store, lock, savedBudget>>

\* A /chat <prompt> interaction of a user begins (bot.py lines 117-119).
StartChat(t) ==
    /\ req[t].pc \in {"idle", "done"}
    /\ nreq < MaxRequests
    /\ \E o \in Owners, b \in Bodies :
         req' = [req EXCEPT ![t] =
                [IdleReq EXCEPT !.pc = "chat_get", !.op = "chat", !.owner = o,
                                !.author = o, !.body = b,
                                !.budget = MAX_PROMPT_LENGTH]]
    /\ nreq' = nreq + 1
    /\ UNCHANGED <<store, lock, savedBudget>>

(***************************************************************************)
(* MessageHistoryRepo.append_message.                                      *)
(***************************************************************************)
\* Line 167: the lock is free and the task takes it.
AmAcquire(t) ==
    /\ req[t].pc = "am_lock"
    /\ lock[LockKey(t)] = 0
    /\ lock' = [lock EXCEPT ![LockKey(t)] = t]
    /\ req' = [req EXCEPT ![t].pc = "am_get"]
    /\ UNCHANGED <<store, savedBudget, nreq>>

\* Line 167: the lock is held by another task.
AmBlocked(t) ==
    /\ req[t].pc = "am_lock"
    /\ lock[LockKey(t)] # 0
    /\ req' = [req EXCEPT ![t] = Blocked(req[t])]
    /\ UNCHANGED <<store, lock, savedBudget, nreq>>

\* A load that takes a record it cannot read for a missing one (used to
\* mutate get_conversation_history).
GetResetsCorrupt(raw) ==
    LET Result(parsed) ==
            IF raw.present /\ parsed.ok
            THEN [raised |-> FALSE, none |-> FALSE, val |-> parsed.val]
            ELSE [raised |-> FALSE, none |-> TRUE, val |-> NoHistory]
    IN  WithValue(json_loads(raw.data), Result)

\* get_conversation_history (lines 133-143) on the value raw of the owner's
\* data key: None when the key does not exist, the parsed history otherwise;
\* json.loads or the ConversationHistory constructor raises when the text is
\* not the JSON of a history.
get_conversation_history(raw) ==
    LET Result(parsed) ==
            IF ~raw.present
            THEN [raised |-> FALSE, none |-> TRUE, val |-> NoHistory]
            ELSE IF parsed.ok
            THEN [raised |-> FALSE, none |-> FALSE, val |-> parsed.val]
            ELSE [raised |-> TRUE, none |-> FALSE, val |-> NoHistory]
    IN  WithValue(json_loads(raw.data), Result)

\* Line 170.
AmGet(t) ==
    /\ req[t].pc = "am_get"
    /\ LET Loaded(got) ==
               IF got.raised
               THEN [req[t] EXCEPT !.pc = "am_exit", !.err = "JSONDecodeError"]
               ELSE IF got.none
               THEN [req[t] EXCEPT !.pc = "am_mutate", !.none = TRUE,
                                   !.sawAbsent = TRUE]
               ELSE [req[t] EXCEPT !.pc = "am_mutate", !.history = got.val]
       IN  req' = [req EXCEPT ![t] =
               WithValue(get_conversation_history(store[DataKey(t)]), Loaded)]
    /\ UNCHANGED <<store, lock, savedBudget, nreq>>

\* Lines 172-188: create the history if there is none, append the message,
\* remove messages until below the maximum.
AmMutate(t) ==
    /\ req[t].pc = "am_mutate"
    /\ LET r == req[t]
           history == IF r.none THEN NewHistory(r.owner) ELSE r.history
           appended == Append(history.messages, HistoryMessage(r.author, r.body))
           trimmed == RemoveUntilBelowMax(appended, r.budget)
       IN  req' = [req EXCEPT ![t] =
               [r EXCEPT !.none = FALSE,
                         !.pre = appended,
                         !.history = [history EXCEPT !.messages = trimmed.messages],
                         !.err = IF trimmed.raised THEN "TypeError_len" ELSE "none",
                         !.pc = IF trimmed.raised THEN "am_exit" ELSE "am_save"]]
    /\ UNCHANGED <<store, lock, savedBudget, nreq>>

\* save_conversation_history (lines 150-153): the data keys after the SET.
save_conversation_history(s, history) ==
    LET redis_key == get_conversation_history_key(history.interacting_user_id)
    IN  [s EXCEPT ![redis_key] =
            [present |-> TRUE, data |-> json_dumps(history)]]

\* Line 193.
AmSave(t) ==
    /\ req[t].pc = "am_save"
    /\ store' = save_conversation_history(store, req[t].history)
    /\ savedBudget' =
           [savedBudget EXCEPT
               ![get_conversation_history_key(req[t].history.interacting_user_id)]
                   = req[t].budget]
    /\ req' = [req EXCEPT ![t].pc = "am_exit"]
    /\ UNCHANGED <<lock, nreq>>

\* Leaving the "async with" block of line 167, by return or by exception.
AmRelease(t) ==
    /\ req[t].pc = "am_exit"
    /\ lock' = Release(lock, LockKey(t))
    /\ req' = [req EXCEPT ![t] = Finished(req[t], req[t].err)]
    /\ UNCHANGED <<store, savedBudget, nreq>>

(***************************************************************************)
(* DiscordBot.chat.                                                        *)
(***************************************************************************)
\* Lines 122-124: the prompt is too long.
ChatReject(t) ==
    /\ req[t].pc = "chat_get"
    /\ Len(req[t].body) > MAX_PROMPT_LENGTH
    /\ req' = [req EXCEPT ![t] = Finished(req[t], "PromptTooLong")]
    /\ UNCHANGED <<store, lock, savedBudget, nreq>>

\* ConversationHistoryRepo.get(owner), which bot.py calls and the source does
\* not define: the stored history, or an empty one for the owner.
get(raw, interacting_user_id) ==
    IF ~raw.present
    THEN [ok |-> TRUE, val |-> ConversationHistory(interacting_user_id, <<>>)]
    ELSE json_loads(raw.data)

\* Line 127.
ChatGet(t) ==
    /\ req[t].pc = "chat_get"
    /\ Len(req[t].body) <= MAX_PROMPT_LENGTH
    /\ LET raw == store[DataKey(t)]
           loaded == get(raw, req[t].owner)
       IN  req' = [req EXCEPT ![t] =
               IF loaded.ok
               THEN [req[t] EXCEPT !.pc = "chat_lock", !.history = loaded.val,
                                   !.sawAbsent = ~raw.present]
               ELSE Finished(req[t], "CorruptRecord")]
    /\ UNCHANGED <<store, lock, savedBudget, nreq>>

\* ConversationHistory.lock(), which bot.py calls and the source does not
\* define: the key of the lock scoped to the history's owner.
history_lock(history) ==
    get_conversation_history_lock_key(history.interacting_user_id)

\* Line 128: the lock is free and the task takes it.
ChatAcquire(t) ==
    /\ req[t].pc = "chat_lock"
    /\ lock[history_lock(req[t].history)] = 0
    /\ lock' = [lock EXCEPT ![history_lock(req[t].history)] = t]
    /\ req' = [req EXCEPT ![t].pc = "chat_prep"]
    /\ UNCHANGED <<store, savedBudget, nreq>>

\* Line 128: the lock is held by another task.
ChatBlocked(t) ==
    /\ req[t].pc = "chat_lock"
    /\ lock[history_lock(req[t].history)] # 0
    /\ req' = [req EXCEPT ![t] = Blocked(req[t])]
    /\ UNCHANGED <<store, lock, savedBudget, nreq>>

\* Lines 130-143: record the prompt and a blank message for the AI, trim,
\* build the text handed to create_completion.
ChatPrepare(t) ==
    /\ req[t].pc = "chat_prep"
    /\ LET r == req[t]
           extended == r.history.messages
                         \o << HistoryMessage(r.owner, r.body),
                               HistoryMessage(BotUserId, <<>>) >>
           Built(trimmed) ==
               LET Handed(transcript) ==
                       IF transcript.raised
                       THEN [r EXCEPT !.pc = "chat_exit", !.err = "IndexError",
                                      !.history.messages = trimmed]
                       ELSE [r EXCEPT !.pc = "chat_ask", !.pre = extended,
                                      !.history.messages = trimmed,
                                      !.transcript = transcript.text]
               IN  WithValue(transcript_of(as_transcript_lines(trimmed)), Handed)
       IN  req' = [req EXCEPT ![t] =
               WithValue(trim(extended, MAX_PROMPT_LENGTH), Built)]
    /\ UNCHANGED <<store, lock, savedBudget, nreq>>

\* Lines 144-151: the completion is not empty; it becomes the body of the last
\* message and the history is trimmed again.
ChatCompletion(t) ==
    /\ req[t].pc = "chat_ask"
    /\ \E ai_resp \in Completions :
         LET r == req[t]
             filled == replace_last_body(r.history.messages, ai_resp)
         IN  req' = [req EXCEPT ![t] =
                 IF filled.raised
                 THEN [r EXCEPT !.pc = "chat_exit", !.err = "IndexError"]
                 ELSE [r EXCEPT !.pc = "chat_save", !.pre = filled.messages,
                                !.transcript = <<>>,
                                !.history.messages =
                                    trim(filled.messages, MAX_PROMPT_LENGTH)]]
    /\ UNCHANGED <<store, lock, savedBudget, nreq>>

\* A missing completion after which the handler goes on to save (used to
\* mutate ChatNoResponse).
ChatNoResponseSaves(t) ==
    /\ req[t].pc = "chat_ask"
    /\ req' = [req EXCEPT ![t].pc = "chat_save"]
    /\ UNCHANGED <<store, lock, savedBudget, nreq>>

\* Lines 145-146: create_completion returned None; self.logger is a Logger,
\* which is not callable, so line 146 raises TypeError.
ChatNoResponse(t) ==
    /\ req[t].pc = "chat_ask"
    /\ req' = [req EXCEPT ![t].pc = "chat_exit", ![t].err = "TypeError_logger"]
    /\ UNCHANGED <<store, lock, savedBudget, nreq>>

\* ConversationHistory.save(), which bot.py calls and the source does not
\* define: the history is serialized and stored under its owner's data key,
\* replacing what was stored.
save(s, history) ==
    [s EXCEPT ![get_conversation_history_key(history.interacting_user_id)] =
        [present |-> TRUE, data |-> json_dumps(history)]]

\* Line 153.
ChatSave(t) ==
    /\ req[t].pc = "chat_save"
    /\ store' = save(store, req[t].history)
    /\ savedBudget' =
           [savedBudget EXCEPT
               ![get_conversation_history_key(req[t].history.interacting_user_id)]
                   = req[t].budget]
    /\ req' = [req EXCEPT ![t].pc = "chat_exit"]
    /\ UNCHANGED <<lock, nreq>>

\* Leaving the "async with" block of line 128, by return or by exception.
ChatRelease(t) ==
    /\ req[t].pc = "chat_exit"
    /\ lock' = Release(lock, history_lock(req[t].history))
    /\ req' = [req EXCEPT ![t] = Finished(req[t], req[t].err)]
    /\ UNCHANGED <<store, savedBudget, nreq>>

(***************************************************************************)
(* Exceptions of awaited calls: the Redis GET or SET (connection error),   *)
(* the username lookup (DiscordUsernameNotFound) and the completion call.  *)
(* Inside an "async with" block the exception leaves the block; in chat it *)
(* is then caught by the handler of lines 157-163.                         *)
(***************************************************************************)
RaisePcs == {"am_get", "am_mutate", "am_save",
             "chat_get", "chat_prep", "chat_ask", "chat_save"}

ExitPc(p) ==
    CASE p \in {"am_get", "am_mutate", "am_save"} -> "am_exit"
      [] p \in {"chat_prep", "chat_ask", "chat_save"} -> "chat_exit"
      [] OTHER -> "done"

Raise(t) ==
    /\ req[t].pc \in RaisePcs
    /\ req' = [req EXCEPT ![t] =
           IF ExitPc(req[t].pc) = "done"
           THEN Finished(req[t], "Exception")
           ELSE [req[t] EXCEPT !.pc = ExitPc(req[t].pc), !.err = "Exception"]]
    /\ UNCHANGED <<store, lock, savedBudget, nreq>>

TaskStep(t) ==
    \/ AmAcquire(t) \/ AmBlocked(t) \/ AmGet(t) \/ AmMutate(t)
    \/ AmSave(t) \/ AmRelease(t)
    \/ ChatReject(t) \/ ChatGet(t) \/ ChatAcquire(t) \/ ChatBlocked(t)
    \/ ChatPrepare(t) \/ ChatCompletion(t) \/ ChatNoResponse(t)
    \/ ChatSave(t) \/ ChatRelease(t)

Next ==
    \E t \in Tasks :
        \/ StartAppend(t) \/ StartChat(t)
        \/ TaskStep(t)
        \/ Raise(t)

Spec == Init /\ [][Next]_vars

\* The scheduler runs every task that can take a step; no fairness is assumed
\* of exceptions or of new requests arriving.
FairSpec == Spec /\ \A t \in Tasks : WF_vars(TaskStep(t))

(***************************************************************************)
(* A process that dies inside append_message.  The lock of line 167 is     *)
(* created by redis_client.lock(name) with no timeout argument, so its key *)
(* is set without an expiry and only release() deletes it: nothing in the  *)
(* backend frees the lock of a task that has stopped.                      *)
(***************************************************************************)
\* The process running task t is killed inside the "async with" block of
\* line 167: the block's exit never runs and the lock stays as it is.
Crash(t) ==
    /\ req[t].pc \in {"am_get", "am_mutate", "am_save", "am_exit"}
    /\ req' = [req EXCEPT ![t].pc = "crashed"]
    /\ UNCHANGED <<store, lock, savedBudget, nreq>>

CrashNext == Next \/ \E t \in Tasks : Crash(t)

\* The scheduler runs every live task that can take a step.
CrashSpec ==
    Init /\ [][CrashNext]_vars /\ \A t \in Tasks : WF_vars(TaskStep(t))

(***************************************************************************)
(* Trimming applied to given histories: the inputs are drawn from bounded  *)
(* sets and the trimming of the request's operation is applied twice.      *)
(***************************************************************************)
\* Longest history drawn.
MaxTrimLen == 3

TrimMessages == { HistoryMessage(a, b) : a \in {42, BotUserId}, b \in Bodies }

TrimInputs == UNION { [1..n -> TrimMessages] : n \in 1..MaxTrimLen }

\* One application of the operation's trimming to a message list: the list
\* it leaves.
ApplyTrim(operation, messages, budget) ==
    IF operation = "append"
    THEN RemoveUntilBelowMax(messages, budget).messages
    ELSE trim(messages, budget)

TrimInit ==
    /\ store = [k \in DataKeys |-> Absent]
    /\ lock = [k \in LockKeys |-> 0]
    /\ savedBudget = [k \in DataKeys |-> 0]
    /\ nreq = 0
    /\ \E operation \in {"append", "chat"}, ms \in TrimInputs, b \in Budgets :
         req = [t \in Tasks |->
                  IF t = 1
                  THEN [IdleReq EXCEPT !.pc = "trim_0", !.op = operation,
                                       !.owner = 42, !.budget = b, !.pre = ms,
                                       !.history = ConversationHistory(42, ms)]
                  ELSE IdleReq]

TrimOnce(t) ==
    /\ req[t].pc = "trim_0"
    /\ LET r == req[t]
           left == ApplyTrim(r.op, r.history.messages, r.budget)
       IN  req' = [req EXCEPT ![t] =
               [r EXCEPT !.pc = "trim_1", !.history.messages = left,
                         !.once = left]]
    /\ UNCHANGED <<store, lock, savedBudget, nreq>>

TrimTwice(t) ==
    /\ req[t].pc = "trim_1"
    /\ LET r == req[t]
           left == ApplyTrim(r.op, r.history.messages, r.budget)
       IN  req' = [req EXCEPT ![t] =
               [r EXCEPT !.pc = "trim_2", !.history.messages = left]]
    /\ UNCHANGED <<store, lock, savedBudget, nreq>>

TrimNext == \E t \in Tasks : TrimOnce(t) \/ TrimTwice(t)

TrimSpec == TrimInit /\ [][TrimNext]_vars

(***************************************************************************)
(* The assignment of line 150 applied to given histories, the empty one    *)
(* included.                                                               *)
(***************************************************************************)
ReplaceInit ==
    /\ store = [k \in DataKeys |-> Absent]
    /\ lock = [k \in LockKeys |-> 0]
    /\ savedBudget = [k \in DataKeys |-> 0]
    /\ nreq = 0
    /\ \E ms \in TrimInputs \cup {<<>>}, b \in Completions \cup Bodies :
         req = [t \in Tasks |->
                  IF t = 1
                  THEN [IdleReq EXCEPT !.pc = "replace_0", !.op = "chat",
                                       !.owner = 42, !.body = b, !.pre = ms,
                                       !.history = ConversationHistory(42, ms)]
                  ELSE IdleReq]

ReplaceLast(t) ==
    /\ req[t].pc = "replace_0"
    /\ LET r == req[t]
           filled == replace_last_body(r.history.messages, r.body)
       IN  req' = [req EXCEPT ![t] =
               [r EXCEPT !.pc = "replace_1",
                         !.history.messages = filled.messages,
                         !.err = IF filled.raised THEN "IndexError"
                                 ELSE "none"]]
    /\ UNCHANGED <<store, lock, savedBudget, nreq>>

ReplaceNext == \E t \in Tasks : ReplaceLast(t)

ReplaceSpec == ReplaceInit /\ [][ReplaceNext]_vars

(***************************************************************************)
(* Records that cannot be deserialized.  The requests only ever store the  *)
(* JSON of a history, so such a record is one written to the data key by   *)
(* something else (another version of the program, an operator); here the  *)
(* data keys start with any of: no record, a truncated JSON text, a JSON    *)
(* object without the messages field.                                      *)
(***************************************************************************)
CorruptTexts ==
    { <<"{", "\"interacting_user_id\"", ":", "7", ",", "\"messages\"", ":", "[">>,
      <<"{", "\"interacting_user_id\"", ":", "7", "}">> }

\* The record cannot be deserialized into a history.
Corrupt(raw) == raw.present /\ ~json_loads(raw.data).ok

CorruptInit ==
    /\ store \in [DataKeys ->
                     {Absent} \cup { [present |-> TRUE, data |-> c] :
                                        c \in CorruptTexts }]
    /\ lock = [k \in LockKeys |-> 0]
    /\ req = [t \in Tasks |-> IdleReq]
    /\ savedBudget = [k \in DataKeys |-> 0]
    /\ nreq = 0

CorruptSpec == CorruptInit /\ [][Next]_vars

(***************************************************************************)
(* Key derivation applied to given owner ids: each task derives the data   *)
(* key and the lock key of an id drawn from 0..MaxOwnerId.                 *)
(***************************************************************************)
\* Largest owner id drawn.
MaxOwnerId == 12

KeyInit ==
    /\ store = [k \in DataKeys |-> Absent]
    /\ lock = [k \in LockKeys |-> 0]
    /\ savedBudget = [k \in DataKeys |-> 0]
    /\ nreq = 0
    /\ \E ids \in [Tasks -> 0..MaxOwnerId] :
         req = [t \in Tasks |->
                  [IdleReq EXCEPT !.pc = "key_0", !.owner = ids[t]]]

DeriveKeys(t) ==
    /\ req[t].pc = "key_0"
    /\ req' = [req EXCEPT ![t] =
           [req[t] EXCEPT
               !.pc = "key_1",
               !.redis_key = get_conversation_history_key(req[t].owner),
               !.lock_key = get_conversation_history_lock_key(req[t].owner)]]
    /\ UNCHANGED <<store, lock, savedBudget, nreq>>

KeyNext == \E t \in Tasks : DeriveKeys(t)

KeySpec == KeyInit /\ [][KeyNext]_vars

(***************************************************************************)
(* Properties.                                                             *)
(***************************************************************************)
\* The request of task t has loaded its owner's record and has neither saved
\* it nor left its critical section.
InSpan(t) ==
    req[t].pc \in {"am_mutate", "am_save", "chat_lock", "chat_prep", "chat_ask",
                   "chat_save"}

\* C1: two requests for the same owner are never both between their load and
\* their save of that owner's record.
C1_SpansNeverInterleave ==
    \A t1, t2 \in Tasks :
        (t1 # t2 /\ InSpan(t1) /\ InSpan(t2)) => req[t1].owner # req[t2].owner

\* C2: every GET and every SET of an owner's record is done by a request that
\* holds that owner's lock at that moment.
C2_AccessOnlyUnderLock ==
    [][\A t \in Tasks :
          (AmGet(t) \/ ChatGet(t) \/ AmSave(t) \/ ChatSave(t))
              => lock[LockKey(t)] = t]_vars

\* s is a contiguous suffix of w.
IsSuffix(s, w) ==
    /\ Len(s) <= Len(w)
    /\ \A i \in 1..Len(s) : s[i] = w[Len(w) - Len(s) + i]

\* The request of task t has run a trimming step on the non-empty list
\* req[t].pre, leaving req[t].history.messages.
Trimmed(t) ==
    \/ req[t].pc \in {"am_save", "chat_ask", "chat_save"}
    \/ req[t].pc = "am_exit" /\ req[t].err = "TypeError_len"

\* C3: trimming completes and leaves a contiguous suffix of the list it was
\* given, within the budget unless exactly one message is left.
C3_TrimYieldsBoundedSuffix ==
    \A t \in Tasks :
        Trimmed(t) =>
            /\ req[t].err = "none"
            /\ IsSuffix(req[t].history.messages, req[t].pre)
            /\ \/ Len(req[t].history.messages) = 1
               \/ all_messages_transcript_len(req[t].history.messages)
                      <= req[t].budget

\* C4: trimming a non-empty list never leaves it empty; when the newest
\* message alone is over the budget exactly that message is left.
C4_TrimKeepsLastMessage ==
    \A t \in Tasks :
        Trimmed(t) =>
            LET newest == req[t].pre[Len(req[t].pre)] IN
            /\ req[t].history.messages # <<>>
            /\ all_messages_transcript_len(<<newest>>) > req[t].budget
                   => req[t].history.messages = <<newest>>

\* C5: every persisted record is within the budget of the request that saved
\* it, unless it holds exactly one message.
C5_PersistedWithinBudget ==
    \A k \in DataKeys :
        store[k].present =>
            LET loaded == json_loads(store[k].data) IN
            /\ loaded.ok
            /\ \/ Len(loaded.val.messages) = 1
               \/ all_messages_transcript_len(loaded.val.messages)
                      <= savedBudget[k]

\* A record of several messages has been persisted.
C5_Witness ==
    \E k \in DataKeys :
        /\ store[k].present
        /\ Len(json_loads(store[k].data).val.messages) >= 2
        /\ savedBudget[k] = MAX_PROMPT_LENGTH

\* C6: a task that is running no request (finished, by return or by
\* exception) holds no lock, and a held lock belongs to a request inside its
\* critical section for that owner.
C6_FinishedHoldsNoLock ==
    \A t \in Tasks :
        /\ req[t].pc \in {"idle", "done"} => \A k \in LockKeys : lock[k] # t
        /\ \A k \in LockKeys :
               lock[k] = t =>
                   /\ k = LockKey(t)
                   /\ req[t].pc \in {"am_get", "am_mutate", "am_save", "am_exit",
                                     "chat_prep", "chat_ask", "chat_save",
                                     "chat_exit"}

\* A request has finished with an exception raised inside its critical
\* section, and another one still holds a lock.
C6_Witness ==
    \E t \in Tasks :
        /\ req[t].pc = "done"
        /\ req[t].err \in {"TypeError_len", "TypeError_logger"}
        /\ \E u \in Tasks, k \in LockKeys : lock[k] = u

\* C7 as claimed: a load for an owner with no stored record gives an empty
\* history carrying the owner's id, never an absent value.
C7_LoadOfAbsentGivesEmptyHistory ==
    \A t \in Tasks :
        (req[t].sawAbsent /\ req[t].pc \in {"am_mutate", "chat_lock"}) =>
            /\ ~req[t].none
            /\ req[t].history = ConversationHistory(req[t].owner, <<>>)

\* C7 as amended: for an owner with no stored record get_conversation_history
\* returns None without an error, append_message then works on an empty
\* history carrying the owner's id (so holds exactly the new message), and the
\* chat handler's get gives the empty history itself.
C7_AbsentGivesNoneThenEmptyHistory ==
    \A t \in Tasks :
        req[t].sawAbsent =>
            /\ req[t].pc = "am_mutate" => req[t].none /\ req[t].err = "none"
            /\ req[t].pc = "am_save" =>
                   req[t].history =
                       ConversationHistory(req[t].owner,
                           <<HistoryMessage(req[t].author, req[t].body)>>)
            /\ req[t].pc = "chat_lock" =>
                   req[t].history = ConversationHistory(req[t].owner, <<>>)

\* append_message found no record and is about to save the history it made.
C7_Witness ==
    \E t \in Tasks : req[t].sawAbsent /\ req[t].pc = "am_save"

\* C8: after a request has saved a history, and before it releases the lock,
\* loading the owner's record gives that history back, field for field.
C8_SaveLoadRoundTrip ==
    \A t \in Tasks :
        (req[t].pc \in {"am_exit", "chat_exit"} /\ req[t].err = "none") =>
            LET raw == store[DataKey(t)] IN
            /\ raw.present
            /\ json_loads(raw.data) = [ok |-> TRUE, val |-> req[t].history]

\* A saved history of several messages, one with characters JSON escapes.
C8_Witness ==
    \E t \in Tasks :
        /\ req[t].pc \in {"am_exit", "chat_exit"}
        /\ req[t].err = "none"
        /\ Len(req[t].history.messages) >= 2
        /\ \E i \in 1..Len(req[t].history.messages) :
               req[t].history.messages[i].body = <<"\\", "\"">>

\* C9: trimming twice in a row with the same budget leaves the same list as
\* trimming once.
C9_TrimIdempotent ==
    \A t \in Tasks :
        req[t].pc = "trim_2" => req[t].history.messages = req[t].once

\* Task t waits for its owner's lock.
Waiting(t) == req[t].pc \in {"am_lock", "chat_lock"}

C11_CrashedHolderLockExpires ==
    \A t \in Tasks :
        (\E k \in LockKeys, u \in Tasks :
             /\ Waiting(t) /\ k = LockKey(t)
             /\ lock[k] = u /\ req[u].pc = "crashed")
          ~> (\E k \in LockKeys : lock[k] = t)

C13_CorruptLoadFailsRecordKept ==
    /\ [](\A t \in Tasks :
             req[t].pc \in {"idle", "done"} => \A k \in LockKeys : lock[k] # t)
    /\ [][\A k \in DataKeys : Corrupt(store[k]) => store'[k] = store[k]]_vars
    /\ [][\A t \in Tasks :
             ((AmGet(t) \/ ChatGet(t)) /\ Corrupt(store[DataKey(t)])) =>
                 /\ req'[t].err \in {"JSONDecodeError", "CorruptRecord"}
                 /\ req'[t].pc \in {"am_exit", "done"}
                 /\ store' = store]_vars

\* append_message has failed to load a record that cannot be deserialized
\* and has not yet left its critical section.
C13_Witness ==
    \E t \in Tasks :
        /\ req[t].pc = "am_exit"
        /\ req[t].err = "JSONDecodeError"
        /\ Corrupt(store[DataKey(t)])
        /\ lock[LockKey(t)] = t

\* Tasks t and u have both derived the keys of their owner ids.
Derived(t, u) == req[t].pc = "key_1" /\ req[u].pc = "key_1"

\* Equal data keys or equal lock keys imply equal owner ids, and no data key
\* equals a lock key.
KeysDistinct(t, u) ==
    /\ req[t].redis_key = req[u].redis_key => req[t].owner = req[u].owner
    /\ req[t].lock_key = req[u].lock_key => req[t].owner = req[u].owner
    /\ req[t].redis_key # req[u].lock_key

\* C14 as claimed: the data key is "conversation-history:" followed by the
\* owner id, the lock key is the data key followed by ":lock", and the keys
\* of different owners never collide.
C14_KeysAsSpecified ==
    \A t, u \in Tasks :
        Derived(t, u) =>
            /\ req[t].redis_key
                   = <<"conversation-history:">> \o IntToDecimal(req[t].owner)
            /\ req[t].lock_key = req[t].redis_key \o <<":lock">>
            /\ KeysDistinct(t, u)

\* C14 as amended: the data key is
\* "conversation-history:interacting-user-id:" followed by the decimal digits
\* of the owner id and nothing else, the lock key is the data key followed by
\* ":lock", and the keys of different owners never collide.
C14_KeysCollisionFree ==
    \A t, u \in Tasks :
        Derived(t, u) =>
            /\ Head(req[t].redis_key)
                   = "conversation-history:interacting-user-id:"
            /\ ParseInt(req[t].redis_key, 2)
                   = [ok |-> TRUE, val |-> req[t].owner,
                      next |-> Len(req[t].redis_key) + 1]
            /\ req[t].lock_key = req[t].redis_key \o <<":lock">>
            /\ KeysDistinct(t, u)

\* The keys of two different owner ids, one id's digits beginning the
\* other's, have been derived.
C14_Witness ==
    \E t, u \in Tasks :
        /\ Derived(t, u)
        /\ req[t].owner = 1
        /\ req[u].owner = 12

\* The messages of the record stored under data key k, none when there is no
\* record.
StoredMessages(k) ==
    IF store[k].present THEN json_loads(store[k].data).val.messages ELSE <<>>

\* The messages the request of task t, which is about to save, has added.
OwnMessages(t) ==
    IF req[t].op = "append"
    THEN << HistoryMessage(req[t].author, req[t].body) >>
    ELSE << HistoryMessage(req[t].owner, req[t].body),
            req[t].history.messages[Len(req[t].history.messages)] >>

\* C15: every save stores a contiguous suffix of the record it replaces
\* followed by the saving request's own messages, and all of it when that
\* fits the request's budget; so no message of a completed request is lost
\* except by trimming, and each request's messages stay together in the
\* order of the saves.
C15_NoLostUpdate ==
    [][\A t \in Tasks :
          (AmSave(t) \/ ChatSave(t)) =>
              LET all == StoredMessages(DataKey(t)) \o OwnMessages(t)
                  new == req[t].history.messages
              IN  /\ IsSuffix(new, all)
                  /\ all_messages_transcript_len(all) <= req[t].budget
                         => new = all]_vars

\* C16: a step of a request for owner A changes neither the record nor the
\* lock of any other owner; a request that finds a lock held is waiting for
\* a request of its own owner; and what a request loads is its own owner's
\* record.
C16_OwnersIndependent ==
    [][\A t \in Tasks :
          /\ (TaskStep(t) \/ Raise(t)) =>
                 \A o \in Owners \ {req[t].owner} :
                     /\ store'[get_conversation_history_key(o)]
                            = store[get_conversation_history_key(o)]
                     /\ lock'[get_conversation_history_lock_key(o)]
                            = lock[get_conversation_history_lock_key(o)]
          /\ (AmBlocked(t) \/ ChatBlocked(t)) =>
                 \E u \in Tasks \ {t}, k \in LockKeys :
                     lock[k] = u /\ req[u].owner = req[t].owner
          /\ ((AmGet(t) \/ ChatGet(t))
                  /\ req'[t].pc \in {"am_mutate", "chat_lock"}) =>
                 LET own == store[get_conversation_history_key(req[t].owner)]
                 IN  IF own.present
                     THEN req'[t].history = json_loads(own.data).val
                     ELSE req'[t].none
                            \/ req'[t].history
                                 = ConversationHistory(req[t].owner, <<>>)]_vars

\* Requests of two different owners are inside their critical sections at
\* the same time, one owner's record being already stored.
C16_Witness ==
    \E t, u \in Tasks :
        /\ req[t].owner = 7 /\ req[u].owner = 42
        /\ lock[get_conversation_history_lock_key(7)] = t
        /\ lock[get_conversation_history_lock_key(42)] = u
        /\ req[t].pc \in {"am_save", "chat_save"}
        /\ store[get_conversation_history_key(42)].present

\* C17: a chat request with an over-long prompt never gets past the length
\* check and never holds a lock; a step of a chat request changes the store
\* only if it is the save of line 153, and then the stored record ends with
\* the bot's message filled with a non-empty completion; a rejection, a
\* missing completion and an exception change nothing in the store, nor does
\* any later step of that request.
C17_ChatPersistsOnlyCompletion ==
    /\ [](\A t \in Tasks :
             (req[t].op = "chat" /\ Len(req[t].body) > MAX_PROMPT_LENGTH) =>
                 /\ req[t].pc = "chat_get"
                 /\ \A k \in LockKeys : lock[k] # t)
    /\ [][\A t \in Tasks :
             (req[t].op = "chat" /\ (TaskStep(t) \/ Raise(t))) =>
                 /\ (ChatReject(t) \/ ChatNoResponse(t) \/ Raise(t)
                        \/ req[t].err # "none") => store' = store
                 /\ ChatReject(t) => lock' = lock
                 /\ store' # store =>
                        /\ ChatSave(t)
                        /\ LET ms == json_loads(store'[DataKey(t)].data).val.messages
                           IN  /\ ms # <<>>
                               /\ ms[Len(ms)].author_id = BotUserId
                               /\ ms[Len(ms)].body \in Completions
                               /\ ms[Len(ms)].body # <<>>]_vars

\* A chat request got no completion, with a record of its owner already
\* stored by an earlier request.
C17_Witness ==
    \E t \in Tasks :
        /\ req[t].op = "chat"
        /\ req[t].pc = "chat_exit"
        /\ req[t].err = "TypeError_logger"
        /\ store[DataKey(t)].present

\* C18: the text handed to the completion client is the rendered lines of
\* all messages of the trimmed history, oldest first, one per line, the last
\* being the line of the bot's placeholder.
C18_PromptIsWholeTranscript ==
    \A t \in Tasks :
        req[t].pc = "chat_ask" =>
            LET lines == as_transcript_lines(req[t].history.messages) IN
            /\ lines[Len(lines)]
                   = as_transcript_str(HistoryMessage(BotUserId, <<>>))
            /\ req[t].transcript = str_join(<<"\n">>, lines)

=============================================================================
